---- MODULE Spec2Model ----
\* Model of src/markdown/generate-readme.ts: the README generator of
\* react-ui-roundup.
\*
\* Strings are sequences of tokens, so concatenation is \o and the parts
\* of a sentence (separators, verb ending, links) stay visible.  A value
\* that may be undefined is a sequence of length 0 (undefined) or 1.
EXTENDS Integers, Sequences, FiniteSets

\* Bounds of the model.
MaxFrameworks == 4
MaxRepos == 3

VARIABLES
  frameworks,          \* ../frameworks frameworks: the ordered framework registry
  componentInfo,       \* ../components componentInfo: the descriptor registry
  pc,                  \* position of the script: "load", "await", "write", "done"
  componentsMarkdown,  \* sections produced so far by the chain callback (l.94-176)
  promises,            \* the promises handed to Promise.all (l.179-181)
  statistics,          \* rows of the Framework Statistics table (l.55-63)
  written,             \* what was passed to writeFile (l.190), <<>> before the call
  logged               \* console.error was called by the writeFile callback (l.192)

vars == <<frameworks, componentInfo, pc, componentsMarkdown, promises,
          statistics, written, logged>>

----------------------------------------------------------------------------
\* Helpers imported from ./utils and ../utils

noValue == "N/A"

issueURL == <<"https://", "github.com/", "dimitropoulos/react-ui-roundup/issues/new">>

link(text, href) == <<"[">> \o text \o <<"](">> \o href \o <<")">>

quote(text) == <<"> ">> \o text

h2(text) == <<"## ">> \o text

p(text) == text

\* one bullet per <<name, criterion>> pair: "**name**: criterion"
criteria(pairs) ==
  [i \in 1..Len(pairs) |-> <<"- **">> \o pairs[i][1] \o <<"**: ">> \o pairs[i][2]]

\* the order of object keys under <
KeyOrder == <<"closable", "icon", "size", "variants">>

KeyRank(key) == CHOOSE i \in 1..Len(KeyOrder) : KeyOrder[i] = key

\* the entries of an object as pairs sorted by key
RECURSIVE toStablePairs(_)
toStablePairs(object) ==
  IF object = <<>> THEN <<>>
  ELSE LET first == CHOOSE i \in 1..Len(object) :
                      \A j \in 1..Len(object) :
                        KeyRank(object[i].optionId) <= KeyRank(object[j].optionId)
       IN <<<<object[first].optionId, object[first]>>>> \o
          toStablePairs(SelectSeq(object,
            LAMBDA o : o.optionId # object[first].optionId))

removeProtocol(url) ==
  IF url # <<>> /\ Head(url) \in {"https://", "http://"} THEN Tail(url) ELSE url

pleaseFileIssue == link(<<"Please file an issue">>, issueURL)

----------------------------------------------------------------------------
\* Library functions (ramda, ramda-adjunct, String.prototype)

RECURSIVE concatAll(_)
concatAll(list) ==
  IF list = <<>> THEN <<>> ELSE Head(list) \o concatAll(Tail(list))

\* ramda chain over a list of lists: flatten one level
chain(lists) == concatAll(lists)

RECURSIVE intersperse(_, _)
intersperse(separator, list) ==
  IF Len(list) <= 1 THEN list
  ELSE <<Head(list), separator>> \o intersperse(separator, Tail(list))

\* ramda update: out-of-range indexes leave the list unchanged (0-based idx)
update(idx, value, list) ==
  IF idx >= 0 /\ idx < Len(list)
  THEN [list EXCEPT ![idx + 1] = value]
  ELSE list

append(element, list) == Append(list, element)

\* String.prototype.replace(/token/, ''): removes the first match only
RECURSIVE replaceFirst(_, _)
replaceFirst(text, token) ==
  IF text = <<>> THEN <<>>
  ELSE IF Head(text) = token THEN Tail(text)
  ELSE <<Head(text)>> \o replaceFirst(Tail(text), token)

Alphabet == <<"a", "b", "c", "d">>

CharCode(ch) == CHOOSE i \in 1..Len(Alphabet) : Alphabet[i] = ch

\* JavaScript's < on strings: lexicographic by code unit
RECURSIVE StringLess(_, _)
StringLess(a, b) ==
  IF b = <<>> THEN FALSE
  ELSE IF a = <<>> THEN TRUE
  ELSE IF CharCode(Head(a)) < CharCode(Head(b)) THEN TRUE
  ELSE IF CharCode(Head(a)) > CharCode(Head(b)) THEN FALSE
  ELSE StringLess(Tail(a), Tail(b))

\* position of x in a list already sorted by name: after every element that
\* is not greater (the sort is stable)
RECURSIVE insertByName(_, _)
insertByName(x, sorted) ==
  IF sorted = <<>> THEN <<x>>
  ELSE IF StringLess(x.name, Head(sorted).name) THEN <<x>> \o sorted
  ELSE <<Head(sorted)>> \o insertByName(x, Tail(sorted))

RECURSIVE sortByName(_)
sortByName(list) ==
  IF list = <<>> THEN <<>>
  ELSE insertByName(list[Len(list)], sortByName(SubSeq(list, 1, Len(list) - 1)))

Digit == <<"0", "1", "2", "3", "4", "5", "6", "7", "8", "9">>

RECURSIVE digits(_)
digits(n) ==
  IF n < 10 THEN <<Digit[n + 1]>>
  ELSE Append(digits(n \div 10), Digit[(n % 10) + 1])

\* Number.prototype.toLocaleString: thousands separators
toLocaleString(n) ==
  LET ds == digits(n)
      L == Len(ds)
  IN concatAll([i \in 1..L |->
       IF i > 1 /\ (L - i + 1) % 3 = 0 THEN <<",", ds[i]>> ELSE <<ds[i]>>])

\* obj[key] on an object kept as a list of <<key, value>> pairs
RECURSIVE lookup(_, _)
lookup(obj, key) ==
  IF obj = <<>> THEN <<>>
  ELSE IF Head(obj)[1] = key THEN <<Head(obj)[2]>>
  ELSE lookup(Tail(obj), key)

----------------------------------------------------------------------------
\* Option renderers stored in the descriptor registry (../components)

toMarkdown(option, value) ==
  IF value = <<>> THEN <<noValue>>
  ELSE IF option.toMarkdown = "boolean"
       THEN (IF value[1] = "true" THEN <<"Yes">> ELSE <<"No">>)
       ELSE <<value[1]>>

----------------------------------------------------------------------------
\* componentsMarkdown: the chain callback, l.96-175

values(optionsById) == optionsById

optionsArray(descriptor) == sortByName(values(descriptor.optionsById))

\* mutant: the Name column is left out of the header
headersWithoutName(descriptor) ==
  <<<<"Framework">>>> \o
  [i \in 1..Len(optionsArray(descriptor)) |-> optionsArray(descriptor)[i].name]

headers(descriptor) ==
  <<<<"Framework">>, <<"Name">>>> \o
  [i \in 1..Len(optionsArray(descriptor)) |-> optionsArray(descriptor)[i].name]

enhancedComponents(fws) ==
  chain([i \in 1..Len(fws) |->
    [j \in 1..Len(fws[i].components) |->
      [componentId   |-> fws[i].components[j].componentId,
       componentName |-> fws[i].components[j].componentName,
       componentURL  |-> fws[i].components[j].componentURL,
       options       |-> fws[i].components[j].options,
       frameworkId   |-> fws[i].frameworkId,
       frameworkName |-> fws[i].frameworkName]]])

\* mutant: a component of an unknown componentId matches every descriptor
whereEqOrUnknown(componentId, component) ==
  \/ component.componentId = componentId
  \/ \A k \in 1..Len(componentInfo) :
       componentInfo[k].componentId # component.componentId

whereEq(componentId, component) == component.componentId = componentId

\* mutant: the option cells follow the declaration order of optionsById
rowDeclarationOrder(descriptor, component) ==
  <<component.frameworkName,
    link(component.componentName, component.componentURL)>> \o
  [j \in 1..Len(descriptor.optionsById) |->
    toMarkdown(descriptor.optionsById[j],
               lookup(component.options, descriptor.optionsById[j].optionId))]

row(descriptor, component) ==
  <<component.frameworkName,
    link(component.componentName, component.componentURL)>> \o
  [j \in 1..Len(optionsArray(descriptor)) |->
    toMarkdown(optionsArray(descriptor)[j],
               lookup(component.options, optionsArray(descriptor)[j].optionId))]

rows(descriptor, fws) ==
  LET matching == SelectSeq(enhancedComponents(fws),
                            LAMBDA c : whereEq(descriptor.componentId, c))
  IN [k \in 1..Len(matching) |-> row(descriptor, matching[k])]

\* mutant: filter where the code has reject
filterPresent(componentId, fws) ==
  LET matching == SelectSeq(enhancedComponents(fws),
                            LAMBDA c : whereEq(componentId, c))
      frameworkIds == [k \in 1..Len(matching) |-> matching[k].frameworkId]
  IN SelectSeq(fws, LAMBDA framework :
       \E k \in 1..Len(frameworkIds) : frameworkIds[k] = framework.frameworkId)

\* l.128-134: the frameworks with no component of this componentId
rejectPresent(componentId, fws) ==
  LET matching == SelectSeq(enhancedComponents(fws),
                            LAMBDA c : whereEq(componentId, c))
      frameworkIds == [k \in 1..Len(matching) |-> matching[k].frameworkId]
  IN SelectSeq(fws, LAMBDA framework :
       ~(\E k \in 1..Len(frameworkIds) : frameworkIds[k] = framework.frameworkId))

\* mutant: the two-separator case is taken for three items (length 5)
switchElementsCase5(elements) ==
  CASE Len(elements) = 0 -> <<>>
    [] Len(elements) = 1 -> elements
    [] Len(elements) = 5 -> update(1, <<" and ">>, elements)
    [] OTHER -> update(Len(elements) - 2, <<", and ">>, elements)

\* l.139-153: the switch on the length of the interspersed list
switchElements(elements) ==
  CASE Len(elements) = 0 -> <<>>
    [] Len(elements) = 1 -> elements
    [] Len(elements) = 3 -> update(1, <<" and ">>, elements)
    [] OTHER -> update(Len(elements) - 2, <<", and ">>, elements)

\* mutant: the verb is pluralized by the number of list elements after the
\* separators were added, compared with 3
appendSentenceWrongPlural(descriptor, elements) ==
  IF Len(elements) > 0
  THEN append(
         <<" appear">> \o (IF Len(elements) <= 3 THEN <<"s">> ELSE <<>>) \o
         <<" to be missing ">> \o descriptor.indefiniteArticle \o <<" ">> \o
         descriptor.cannonicalName \o <<" component. ">> \o pleaseFileIssue \o
         <<" if one now exists.\n">>,
         elements)
  ELSE <<>>

\* l.154-157: the sentence appended to the list
appendSentence(descriptor, elements) ==
  IF Len(elements) > 0
  THEN append(
         <<" appear">> \o (IF Len(elements) = 1 THEN <<"s">> ELSE <<>>) \o
         <<" to be missing ">> \o descriptor.indefiniteArticle \o <<" ">> \o
         descriptor.cannonicalName \o <<" component. ">> \o pleaseFileIssue \o
         <<" if one now exists.\n">>,
         elements)
  ELSE <<>>

missingFrameworks(descriptor, fws) ==
  LET missing == rejectPresent(descriptor.componentId, fws)
      links == [i \in 1..Len(missing) |->
                 link(missing[i].frameworkName, missing[i].repoURL)]
      line == concatAll(appendSentence(descriptor,
                switchElements(intersperse(<<", ">>, links))))
  IN IF Len(line) > 0 THEN quote(line) ELSE <<>>

section(descriptor, fws) ==
  [heading |-> h2(descriptor.cannonicalName),
   description |-> p(IF descriptor.description.isString
                     THEN descriptor.description.text
                     ELSE descriptor.description.markdown),
   criteria |-> criteria([i \in 1..Len(descriptor.optionsById) |->
                 <<toStablePairs(descriptor.optionsById)[i][2].name,
                   toStablePairs(descriptor.optionsById)[i][2].criteria>>]),
   headers |-> headers(descriptor),
   rows |-> rows(descriptor, fws),
   missingFrameworks |-> missingFrameworks(descriptor, fws)]

----------------------------------------------------------------------------
\* frameworksSectionMarkdown, l.43-66, and fetchAll, l.178-195.  The table
\* rows are kept; the heading and the timestamp quote are constant text
\* around them.

\* mutant: the fallback is dropped and undefined is printed
nullishNoFallback(value, fallback) ==
  IF value = <<>> THEN <<"undefined">> ELSE value[1]

\* value ?? fallback
nullish(value, fallback) == IF value = <<>> THEN fallback ELSE value[1]

\* entry?.field?.toLocaleString()
localeField(entry, field) ==
  IF entry = <<>> THEN <<>>
  ELSE IF entry[1][field] = <<>> THEN <<>>
  ELSE <<toLocaleString(entry[1][field][1])>>

\* entry?.license?.name?.replace(/ License/, '')
licenseField(entry) ==
  IF entry = <<>> THEN <<>>
  ELSE IF entry[1].license = <<>> THEN <<>>
  ELSE IF entry[1].license[1].isNull THEN <<>>
  ELSE IF entry[1].license[1].name = <<>> THEN <<>>
  ELSE <<replaceFirst(entry[1].license[1].name[1], " License")>>

\* repoInfo[repoURL] on the object built by indexBy
property(object, key) == IF key \in DOMAIN object THEN <<object[key]>> ELSE <<>>

statisticsRow(object, framework) ==
  <<framework.frameworkName,
    link(removeProtocol(framework.frameworkHomepage), framework.frameworkHomepage),
    link(replaceFirst(removeProtocol(framework.repoURL), "github.com/"),
         framework.repoURL),
    nullish(localeField(property(object, framework.repoURL), "stargazers_count"),
            <<noValue>>),
    nullish(localeField(property(object, framework.repoURL), "forks_count"),
            <<noValue>>),
    nullish(localeField(property(object, framework.repoURL), "open_issues_count"),
            <<noValue>>),
    nullish(licenseField(property(object, framework.repoURL)), <<noValue>>)>>

frameworksSectionMarkdown(object, fws) ==
  [i \in 1..Len(fws) |-> statisticsRow(object, fws[i])]

\* ramda-adjunct compact: drops the undefined results
compact(list) ==
  LET kept == SelectSeq(list, LAMBDA value : value # <<>>)
  IN [i \in 1..Len(kept) |-> kept[i][1]]

\* String(record.html_url): the key indexBy files a record under
htmlUrlKey(record) ==
  IF record.html_url = <<>> THEN <<"undefined">> ELSE record.html_url[1]

\* ramda indexBy(prop('html_url')): a later record replaces an earlier one
\* filed under the same key
indexBy(list) ==
  [key \in {htmlUrlKey(list[i]) : i \in 1..Len(list)} |->
    list[CHOOSE i \in 1..Len(list) :
           /\ htmlUrlKey(list[i]) = key
           /\ \A j \in 1..Len(list) : htmlUrlKey(list[j]) = key => j <= i]]

\* mutant: Promise.race, which resolves with the first fulfilled promise
promiseRace(list) ==
  list = <<>> \/ \E i \in 1..Len(list) : list[i].status = "fulfilled"

\* Promise.all resolves once every promise is fulfilled
promiseAll(list) == \A i \in 1..Len(list) : list[i].status = "fulfilled"

\* getRepoInfo(repoURL) of ../utils returns a pending promise
getRepoInfo(repoURL) == [status |-> "pending", request |-> repoURL, value |-> <<>>]

----------------------------------------------------------------------------
\* Inputs: the registries of ../frameworks and ../components, and the
\* responses of the repository API

FrameworkIds == <<"acme", "beta", "gamma", "delta", "epsilon", "zeta">>

FrameworkNames == <<"Acme", "Beta", "Gamma", "Delta", "Epsilon", "Zeta">>

Framework(i, components) ==
  [frameworkId |-> FrameworkIds[i],
   frameworkName |-> <<FrameworkNames[i]>>,
   frameworkHomepage |-> <<"https://", FrameworkIds[i], ".example">>,
   repoURL |-> <<"https://", "github.com/", FrameworkIds[i], "/ui">>,
   components |-> components]

Option(optionId, name, renderer) ==
  [optionId |-> optionId, name |-> name,
   criteria |-> <<"How ", optionId, " is judged.">>, toMarkdown |-> renderer]

OptionDicts ==
  { <<>>,
    <<Option("closable", <<"c">>, "boolean"),
      Option("icon", <<"a", "b">>, "boolean"),
      Option("variants", <<"a">>, "text")>>,
    <<Option("size", <<"b">>, "text"),
      Option("closable", <<"b">>, "boolean"),
      Option("icon", <<"a">>, "boolean")>> }

Descriptors(alertOptions, buttonOptions) ==
  <<[componentId |-> "alert",
     cannonicalName |-> <<"Alert">>,
     indefiniteArticle |-> <<"an">>,
     description |-> [isString |-> TRUE, text |-> <<"Alerts inform.">>,
                      markdown |-> <<>>],
     optionsById |-> alertOptions],
    [componentId |-> "button",
     cannonicalName |-> <<"Button">>,
     indefiniteArticle |-> <<"a">>,
     description |-> [isString |-> FALSE, text |-> <<>>,
                      markdown |-> <<"Buttons **act**.">>],
     optionsById |-> buttonOptions]>>

Component(componentId, componentName, options) ==
  [componentId |-> componentId,
   componentName |-> <<componentName>>,
   componentURL |-> <<"https://", "docs.example/", componentName>>,
   options |-> options]

AlertFull ==
  Component("alert", "Alert",
            <<<<"closable", "true">>, <<"icon", "false">>, <<"variants", "3">>>>)

AlertPartial ==
  Component("alert", "Message", <<<<"icon", "true">>, <<"size", "lg">>>>)

Button ==
  Component("button", "Button", <<<<"size", "sm">>, <<"closable", "false">>>>)

\* a component whose componentId no descriptor has
Ghost == Component("ghost", "Ghost", <<<<"closable", "true">>>>)

ComponentLists ==
  { <<>>, <<AlertFull>>, <<AlertPartial, Button>>, <<Button>>, <<Ghost>>,
    <<AlertFull, Ghost, AlertPartial>> }

License(name) == <<[isNull |-> FALSE, name |-> name]>>

Bodies ==
  { [stargazers_count |-> <<1234567>>, forks_count |-> <<0>>,
     open_issues_count |-> <<42>>,
     license |-> License(<<<<"MIT", " License">>>>)],
    [stargazers_count |-> <<>>, forks_count |-> <<>>,
     open_issues_count |-> <<>>,
     license |-> <<[isNull |-> TRUE, name |-> <<>>]>>],
    [stargazers_count |-> <<999>>, forks_count |-> <<1000>>,
     open_issues_count |-> <<>>,
     license |-> License(<<>>)] }

\* the html_url the API reports for a repository that was renamed or moved
MovedURL == <<"https://", "github.com/", "moved", "/ui">>

\* what a getRepoInfo promise can resolve to: undefined, or a response body
\* whose html_url is whatever the API reports: no html_url (an error body),
\* the URL of a configured framework, or another canonical URL
Responses(fws) ==
  {<<>>} \cup
  { <<[html_url |-> url,
       stargazers_count |-> body.stargazers_count,
       forks_count |-> body.forks_count,
       open_issues_count |-> body.open_issues_count,
       license |-> body.license]>> :
    url \in {<<>>, <<MovedURL>>} \cup {<<fws[i].repoURL>> : i \in 1..Len(fws)},
    body \in Bodies }

----------------------------------------------------------------------------
\* The script

InitState ==
  /\ pc = "load"
  /\ componentsMarkdown = <<>>
  /\ promises = <<>>
  /\ statistics = <<>>
  /\ written = <<>>
  /\ logged = FALSE

Init ==
  /\ \E n \in 0..MaxRepos :
       frameworks = [i \in 1..n |->
         Framework(i, IF i % 2 = 1 THEN <<AlertFull>> ELSE <<Button, Ghost>>)]
  /\ \E options \in OptionDicts : componentInfo = Descriptors(options, options)
  /\ InitState

InitComponents ==
  /\ \E n \in 0..MaxFrameworks :
       \E lists \in [1..n -> ComponentLists] :
         frameworks = [i \in 1..n |-> Framework(i, lists[i])]
  /\ \E alertOptions \in OptionDicts, buttonOptions \in OptionDicts :
       componentInfo = Descriptors(alertOptions, buttonOptions)
  /\ InitState

\* l.96-175: the chain callback renders the section of the next descriptor
\* while the module is loaded
ComponentSection ==
  /\ pc = "load"
  /\ Len(componentsMarkdown) < Len(componentInfo)
  /\ componentsMarkdown' =
       Append(componentsMarkdown,
              section(componentInfo[Len(componentsMarkdown) + 1], frameworks))
  /\ UNCHANGED <<frameworks, componentInfo, pc, promises, statistics, written,
                 logged>>

\* l.197, l.179-181: fetchAll() is called once the module constants are
\* evaluated; it issues one getRepoInfo per framework and awaits Promise.all
FetchAll ==
  /\ pc = "load"
  /\ Len(componentsMarkdown) = Len(componentInfo)
  /\ promises' = [i \in 1..Len(frameworks) |-> getRepoInfo(frameworks[i].repoURL)]
  /\ pc' = "await"
  /\ UNCHANGED <<frameworks, componentInfo, componentsMarkdown, statistics,
                 written, logged>>

\* one getRepoInfo promise is fulfilled, in any order
Settle ==
  /\ pc = "await"
  /\ \E i \in 1..Len(promises) :
       /\ promises[i].status = "pending"
       /\ \E value \in Responses(frameworks) :
            promises' = [promises EXCEPT ![i].status = "fulfilled",
                                         ![i].value = value]
  /\ UNCHANGED <<frameworks, componentInfo, pc, componentsMarkdown, statistics,
                 written, logged>>

\* l.183-190: fetchAll resumes, renders the readme and calls writeFile
Render ==
  /\ pc = "await"
  /\ promiseAll(promises)
  /\ LET repoInfo == [i \in 1..Len(promises) |-> promises[i].value]
         table == frameworksSectionMarkdown(indexBy(compact(repoInfo)), frameworks)
     IN /\ statistics' = table
        /\ written' = <<[statistics |-> table, components |-> componentsMarkdown]>>
  /\ pc' = "write"
  /\ UNCHANGED <<frameworks, componentInfo, componentsMarkdown, promises, logged>>

\* l.190-194: the writeFile callback logs an error, if any
WriteFileCallback ==
  /\ pc = "write"
  /\ \E error \in BOOLEAN : logged' = error
  /\ pc' = "done"
  /\ UNCHANGED <<frameworks, componentInfo, componentsMarkdown, promises,
                 statistics, written>>

Next == ComponentSection \/ FetchAll \/ Settle \/ Render \/ WriteFileCallback

Spec == Init /\ [][Next]_vars

NextComponents == ComponentSection

SpecComponents == InitComponents /\ [][NextComponents]_vars

----------------------------------------------------------------------------
\* Properties of the components section

\* the descriptor and the section rendered for it
Rendered == 1..Len(componentsMarkdown)

HasComponent(framework, componentId) ==
  \E j \in 1..Len(framework.components) :
    framework.components[j].componentId = componentId

\* links of the frameworks without a component of the descriptor, in the
\* order of the frameworks registry
MissingLinks(descriptor) ==
  LET missing == SelectSeq(frameworks,
                   LAMBDA f : ~HasComponent(f, descriptor.componentId))
  IN [i \in 1..Len(missing) |->
       <<"[", missing[i].frameworkName[1], "](">> \o missing[i].repoURL \o <<")">>]

IssueLink ==
  <<"[", "Please file an issue", "](">> \o issueURL \o <<")">>

\* the sentence after the list; verb is " appears" or " appear"
Sentence(descriptor, verb) ==
  <<verb, " to be missing ">> \o descriptor.indefiniteArticle \o <<" ">> \o
  descriptor.cannonicalName \o <<" component. ">> \o IssueLink \o
  <<" if one now exists.\n">>

\* the tokens of a block with "appear", "s" read as one word
RECURSIVE Words(_)
Words(tokens) ==
  IF tokens = <<>> THEN <<>>
  ELSE IF Len(tokens) >= 2 /\ tokens[1] = " appear" /\ tokens[2] = "s"
       THEN <<" appears">> \o Words(SubSeq(tokens, 3, Len(tokens)))
       ELSE <<Head(tokens)>> \o Words(Tail(tokens))

RECURSIVE CommaList(_)
CommaList(links) ==
  IF Len(links) = 1 THEN links[1]
  ELSE IF Len(links) = 2 THEN links[1] \o <<", and ">> \o links[2]
  ELSE links[1] \o <<", ">> \o CommaList(Tail(links))

\* C1 (as stated): with exactly three frameworks A, B, C missing, the
\* block reads "A and B and C appear to be missing ...", with no commas.
C1_ThreeJoinedByAnd ==
  \A k \in Rendered :
    LET links == MissingLinks(componentInfo[k])
    IN Len(links) = 3 =>
         Words(componentsMarkdown[k].missingFrameworks) =
           <<"> ">> \o links[1] \o <<" and ">> \o links[2] \o <<" and ">> \o
           links[3] \o Sentence(componentInfo[k], " appear")

\* C1 (amended): with exactly three frameworks A, B, C missing, the block
\* reads "A, B, and C appear to be missing ...": the three-item list is
\* comma-separated with ", and " before the last item, like the longer ones.
C1_ThreeCommaAnd ==
  \A k \in Rendered :
    LET links == MissingLinks(componentInfo[k])
    IN Len(links) = 3 =>
         Words(componentsMarkdown[k].missingFrameworks) =
           <<"> ">> \o links[1] \o <<", ">> \o links[2] \o <<", and ">> \o
           links[3] \o Sentence(componentInfo[k], " appear")

C1_Witness ==
  \E k \in Rendered : Len(MissingLinks(componentInfo[k])) = 3

\* C2: with n missing frameworks, n = 0 gives no block quote, n = 1 gives
\* "A appears to be missing ...", n = 2 gives "A and B appear ...", n >= 4
\* gives the items comma-separated with ", and " before the last; the verb
\* is "appears" exactly when n = 1.
C2_ListGrammar ==
  \A k \in Rendered :
    LET links == MissingLinks(componentInfo[k])
        n == Len(links)
        block == Words(componentsMarkdown[k].missingFrameworks)
    IN /\ n = 0 => componentsMarkdown[k].missingFrameworks = <<>>
       /\ n = 1 => block = <<"> ">> \o links[1] \o
                           Sentence(componentInfo[k], " appears")
       /\ n = 2 => block = <<"> ">> \o links[1] \o <<" and ">> \o links[2] \o
                           Sentence(componentInfo[k], " appear")
       /\ n >= 4 => block = <<"> ">> \o CommaList(links) \o
                            Sentence(componentInfo[k], " appear")
       /\ n >= 1 => (\E i \in 1..Len(block) : block[i] = " appears") <=> (n = 1)

C2_Witness ==
  /\ \E k \in Rendered : Len(MissingLinks(componentInfo[k])) >= 4
  /\ \E k \in Rendered : Len(MissingLinks(componentInfo[k])) = 1

\* the texts of the links of a block, in order
RECURSIVE LinkTexts(_)
LinkTexts(tokens) ==
  IF Len(tokens) < 2 THEN <<>>
  ELSE IF Head(tokens) = "[" THEN <<tokens[2]>> \o LinkTexts(Tail(tokens))
  ELSE LinkTexts(Tail(tokens))

\* the frameworks a block names: its links but the closing issue link
NamedIn(block) ==
  LET texts == LinkTexts(block)
  IN IF texts = <<>> THEN <<>> ELSE SubSeq(texts, 1, Len(texts) - 1)

\* C3: for every descriptor, every framework either contributes a table
\* row (it has a component of that componentId) or is named in the
\* missing-frameworks block, never both and never neither, and the block
\* names the missing frameworks in the order of the frameworks registry.
C3_Complement ==
  \A k \in Rendered :
    LET named == NamedIn(componentsMarkdown[k].missingFrameworks)
        tableRows == componentsMarkdown[k].rows
        inTable(f) == \E r \in 1..Len(tableRows) : tableRows[r][1] = f.frameworkName
        inBlock(f) == \E m \in 1..Len(named) : named[m] = f.frameworkName[1]
        missing == SelectSeq(frameworks,
                     LAMBDA f : ~HasComponent(f, componentInfo[k].componentId))
    IN /\ \A i \in 1..Len(frameworks) :
            /\ inTable(frameworks[i]) <=>
                 HasComponent(frameworks[i], componentInfo[k].componentId)
            /\ inTable(frameworks[i]) <=> ~inBlock(frameworks[i])
       /\ named = [m \in 1..Len(missing) |-> missing[m].frameworkName[1]]

C3_Witness ==
  \E k \in Rendered :
    /\ Len(NamedIn(componentsMarkdown[k].missingFrameworks)) >= 2
    /\ Len(componentsMarkdown[k].rows) >= 2

\* C4 (as stated): the header row has length 1 + the number of options.
C4_HeaderOnePlusOptions ==
  \A k \in Rendered :
    Len(componentsMarkdown[k].headers) = 1 + Len(componentInfo[k].optionsById)

Count(list, x) == Cardinality({i \in 1..Len(list) : list[i] = x})

\* C4 (amended): the header row has length 2 + the number of options: the
\* "Framework" column, the "Name" column, then one column per option, the
\* option names sorted by name.
C4_HeaderTwoPlusOptions ==
  \A k \in Rendered :
    LET header == componentsMarkdown[k].headers
        options == componentInfo[k].optionsById
        names == [i \in 1..Len(options) |-> options[i].name]
    IN /\ Len(header) = 2 + Len(options)
       /\ header[1] = <<"Framework">>
       /\ header[2] = <<"Name">>
       /\ \A i \in 3..Len(header) :
            Count(SubSeq(header, 3, Len(header)), header[i]) = Count(names, header[i])
       /\ \A i \in 3..Len(header), j \in 3..Len(header) :
            i < j => ~StringLess(header[j], header[i])

C4_Witness ==
  \E k \in Rendered :
    /\ Len(componentInfo[k].optionsById) >= 2
    /\ componentInfo[k].optionsById[1].name # componentsMarkdown[k].headers[3]

\* the framework/component pairs whose componentId is the descriptor's
MatchingPairs(descriptor) ==
  UNION {{<<i, j>> : j \in {c \in 1..Len(frameworks[i].components) :
             frameworks[i].components[c].componentId = descriptor.componentId}} :
         i \in 1..Len(frameworks)}

\* row is the table row of component j of framework i under this header
IsRowOf(tableRow, header, descriptor, i, j) ==
  LET component == frameworks[i].components[j]
  IN /\ Len(tableRow) = Len(header)
     /\ tableRow[1] = frameworks[i].frameworkName
     /\ tableRow[2] = <<"[", component.componentName[1], "](">> \o
                      component.componentURL \o <<")">>
     /\ \A c \in 3..Len(header) :
          \E o \in 1..Len(descriptor.optionsById) :
            /\ descriptor.optionsById[o].name = header[c]
            /\ tableRow[c] = toMarkdown(descriptor.optionsById[o],
                 lookup(component.options, descriptor.optionsById[o].optionId))

\* C5: every body row (one per framework/component pair whose componentId
\* matches) is as long as the header row, and its option cells are in the
\* order of the header's option columns.
C5_RowsMatchHeader ==
  \A k \in Rendered :
    LET header == componentsMarkdown[k].headers
        tableRows == componentsMarkdown[k].rows
        pairs == MatchingPairs(componentInfo[k])
    IN /\ Len(tableRows) = Cardinality(pairs)
       /\ \A r \in 1..Len(tableRows) :
            /\ Len(tableRows[r]) = Len(header)
            /\ \E pair \in pairs :
                 IsRowOf(tableRows[r], header, componentInfo[k], pair[1], pair[2])
       /\ \A pair \in pairs :
            \E r \in 1..Len(tableRows) :
              IsRowOf(tableRows[r], header, componentInfo[k], pair[1], pair[2])

C5_Witness ==
  \E k \in Rendered :
    /\ Len(componentsMarkdown[k].rows) >= 3
    /\ Len(componentInfo[k].optionsById) >= 2
    /\ componentInfo[k].optionsById[1].name # componentsMarkdown[k].headers[3]

\* the registry without the components whose componentId no descriptor has
WithoutUnknown(fws) ==
  [i \in 1..Len(fws) |->
    [fws[i] EXCEPT !.components =
      SelectSeq(fws[i].components,
        LAMBDA c : \E k \in 1..Len(componentInfo) :
                     componentInfo[k].componentId = c.componentId)]]

IsUnknown(component) ==
  \A k \in 1..Len(componentInfo) :
    componentInfo[k].componentId # component.componentId

\* C9: a component whose componentId no descriptor has contributes a row to
\* no table, and the rows and the missing-frameworks block of every
\* descriptor are those of the registry without that component.
C9_UnknownComponentDropped ==
  \A k \in Rendered :
    /\ componentsMarkdown[k].rows =
         rows(componentInfo[k], WithoutUnknown(frameworks))
    /\ componentsMarkdown[k].missingFrameworks =
         missingFrameworks(componentInfo[k], WithoutUnknown(frameworks))
    /\ \A i \in 1..Len(frameworks) :
         \A j \in 1..Len(frameworks[i].components) :
           IsUnknown(frameworks[i].components[j]) =>
             /\ \A r \in 1..Len(componentsMarkdown[k].rows) :
                  componentsMarkdown[k].rows[r][2] #
                    <<"[", frameworks[i].components[j].componentName[1], "](">> \o
                    frameworks[i].components[j].componentURL \o <<")">>
             /\ Len(componentsMarkdown[k].rows) = Cardinality(MatchingPairs(componentInfo[k]))

C9_Witness ==
  /\ Len(componentsMarkdown) = Len(componentInfo)
  /\ \E i \in 1..Len(frameworks) :
       /\ Len(frameworks[i].components) >= 2
       /\ \E j \in 1..Len(frameworks[i].components) :
            IsUnknown(frameworks[i].components[j])
  /\ \E i \in 1..Len(frameworks) : frameworks[i].components = <<Ghost>>

----------------------------------------------------------------------------
\* Properties of the statistics fetch and table

ReportRendered == pc \in {"write", "done"}

BatchIssued == pc # "load"

BatchCompleted ==
  /\ BatchIssued
  /\ \A i \in 1..Len(promises) : promises[i].status = "fulfilled"

Placeholder == <<"N/A">>

\* the statistic cells a stats record stands for: its counts with
\* thousands separators and its license name, the placeholder for a
\* field the record lacks
CountCell(count) == IF count = <<>> THEN Placeholder ELSE toLocaleString(count[1])

LicenseCell(license) ==
  IF license = <<>> THEN Placeholder
  ELSE IF license[1].isNull \/ license[1].name = <<>> THEN Placeholder
  ELSE replaceFirst(license[1].name[1], " License")

CellsOf(value) ==
  IF value = <<>> THEN <<Placeholder, Placeholder, Placeholder, Placeholder>>
  ELSE <<CountCell(value[1].stargazers_count), CountCell(value[1].forks_count),
         CountCell(value[1].open_issues_count), LicenseCell(value[1].license)>>

\* the fetch of framework i resolved to a stats record: a response that
\* describes a repository (it carries an html_url), not undefined and not
\* an error body
ResolvedToRecord(i) ==
  /\ promises[i].value # <<>>
  /\ promises[i].value[1].html_url # <<>>

\* C6 (as stated): when the fetch of some framework fails, the report is
\* still rendered and passed to the writer, every framework whose fetch
\* succeeded shows the statistics of its record, and a framework whose
\* fetch failed shows the placeholder in every statistic cell.
C6_PartialFailureTolerated ==
  (pc = "done" /\ \E i \in 1..Len(promises) : promises[i].value = <<>>) =>
    /\ written # <<>>
    /\ Len(written[1].statistics) = Len(frameworks)
    /\ \A i \in 1..Len(frameworks) :
         (ResolvedToRecord(i) \/ promises[i].value = <<>>) =>
           SubSeq(written[1].statistics[i], 4, 7) = CellsOf(promises[i].value)

\* C7 (as stated): rendering of the report begins only after every request
\* of the batch has completed.
C7_NoRenderingBeforeBarrier ==
  (componentsMarkdown # <<>> \/ ReportRendered) => BatchCompleted

\* C7 (amended): one request per framework is issued in a single step, and
\* the statistics table and the report are rendered only after every
\* request of the batch has completed, in every order of completion; the
\* components section is rendered earlier, when the module is loaded,
\* before any request is issued.
C7_StatisticsAfterBarrier ==
  /\ BatchIssued =>
       /\ Len(promises) = Len(frameworks)
       /\ \A i \in 1..Len(promises) : promises[i].request = frameworks[i].repoURL
       /\ Len(componentsMarkdown) = Len(componentInfo)
  /\ ~BatchIssued => promises = <<>>
  /\ (ReportRendered \/ statistics # <<>> \/ written # <<>>) => BatchCompleted

C7_Witness ==
  /\ pc = "done"
  /\ Len(promises) >= 2
  /\ BatchCompleted
  /\ written # <<>>

\* the fetches whose record is filed under this repository URL
FiledUnder(repoURL) ==
  {i \in 1..Len(promises) :
     /\ promises[i].value # <<>>
     /\ promises[i].value[1].html_url = <<repoURL>>}

Last(indexes) == CHOOSE i \in indexes : \A j \in indexes : j <= i

\* C8: a framework whose repository URL is absent from the stats lookup
\* shows the placeholder in all four statistic cells, and a statistic
\* field missing from the record found in the lookup shows the same
\* placeholder; no such cell is undefined or blank.
C8_PlaceholderForMissing ==
  ReportRendered =>
    \A i \in 1..Len(frameworks) :
      LET filed == FiledUnder(frameworks[i].repoURL)
          cells == statistics[i]
      IN /\ Len(cells) = 7
         /\ filed = {} => \A c \in 4..7 : cells[c] = Placeholder
         /\ filed # {} =>
              LET record == promises[Last(filed)].value[1]
              IN /\ record.stargazers_count = <<>> => cells[4] = Placeholder
                 /\ record.forks_count = <<>> => cells[5] = Placeholder
                 /\ record.open_issues_count = <<>> => cells[6] = Placeholder
                 /\ (\/ record.license = <<>>
                     \/ record.license[1].isNull
                     \/ record.license[1].name = <<>>) => cells[7] = Placeholder

C8_Witness ==
  /\ pc = "done"
  /\ \E i \in 1..Len(frameworks) : FiledUnder(frameworks[i].repoURL) = {}
  /\ \E i \in 1..Len(frameworks) :
       LET filed == FiledUnder(frameworks[i].repoURL)
       IN /\ filed # {}
          /\ promises[Last(filed)].value[1].stargazers_count # <<>>
          /\ promises[Last(filed)].value[1].open_issues_count = <<>>

\* C10 (as stated): every framework whose fetch resolved to a stats record
\* shows that record's star, fork and issue counts, and no row shows a
\* record fetched for another framework's repoURL.
C10_MergedByRequestURL ==
  ReportRendered =>
    \A i \in 1..Len(frameworks) :
      /\ ResolvedToRecord(i) =>
           SubSeq(statistics[i], 4, 6) = SubSeq(CellsOf(promises[i].value), 1, 3)
      /\ \A j \in 1..Len(frameworks) :
           (j # i /\ ResolvedToRecord(j) /\
            CellsOf(promises[j].value) # CellsOf(promises[i].value)) =>
             SubSeq(statistics[i], 4, 7) # CellsOf(promises[j].value)

====
